---- MODULE Spec2Model ----
(***************************************************************************)
(* A model of packages/components/src/button/button.tsx: the Button        *)
(* component and its ButtonContent helper.  A caller assembles a property  *)
(* bag, Button is rendered inside or outside a ButtonGroup, and React then *)
(* renders the ButtonContent element that Button returned.                 *)
(***************************************************************************)
EXTENDS Naturals, Sequences, FiniteSets, TLC

VARIABLES
    props,      \* the property bag handed to Button (supplied keys only)
    group,      \* the ambient ButtonGroup context read by useButtonGroup()
    pc,         \* "props" | "rendered" | "done"
    styleArgs,  \* the argument Button passed to useStyleConfig("Button", ...)
    styles,     \* what useStyleConfig returned
    root,       \* the element returned by Button
    content     \* the output of ButtonContent for the element inside root

vars == <<props, group, pc, styleArgs, styles, root, content>>

-----------------------------------------------------------------------------
(* JavaScript values *)

Undefined == [type |-> "undefined", val |-> ""]
Bool(b) == [type |-> "boolean", val |-> IF b THEN "true" ELSE "false"]
Str(s) == [type |-> "string", val |-> s]
Elem(name) == [type |-> "element", val |-> name]

JsTrue == Bool(TRUE)
JsFalse == Bool(FALSE)

\* ToBoolean
Truthy(v) ==
    /\ v.type # "undefined"
    /\ ~(v.type = "boolean" /\ v.val = "false")
    /\ ~(v.type = "string" /\ v.val = "")

\* a || b
Or(a, b) == IF Truthy(a) THEN a ELSE b

\* React.isValidElement
isValidElement(v) == v.type = "element"

EmptyObject == [k \in {} |-> Undefined]

\* obj[k], undefined for a key the object does not have
Get(obj, k) == IF k \in DOMAIN obj THEN obj[k] ELSE Undefined

\* { ...a, ...b }
Spread(a, b) ==
    [k \in (DOMAIN a) \cup (DOMAIN b) |-> IF k \in DOMAIN b THEN b[k] ELSE a[k]]

\* the object without the keys in ks
Omit(obj, ks) == [k \in (DOMAIN obj) \ ks |-> obj[k]]

-----------------------------------------------------------------------------
(* Bounds and input domains *)

\* the caller supplies at most this many properties besides children
MaxProps == 4

BoolValues == {JsTrue, JsFalse}

PropKeys ==
    {"isDisabled", "isLoading", "isActive", "leftIcon", "rightIcon",
     "loadingText", "iconSpacing", "spinner", "spinnerPlacement", "className",
     "shouldWrapChildren", "disabled", "data-active", "data-loading", "title",
     "variant"}

PropValues(k) ==
    CASE k \in {"isDisabled", "isLoading", "isActive", "shouldWrapChildren",
                "disabled"} -> BoolValues
      [] k = "leftIcon" -> {Elem("X")}
      [] k = "rightIcon" -> {Elem("Y")}
      [] k = "spinner" -> {Elem("Spinner")}
      [] k = "loadingText" -> {Str(""), Str("Saving")}
      [] k = "iconSpacing" -> {Str("1rem")}
      [] k = "spinnerPlacement" -> {Str("start"), Str("end")}
      [] k = "className" -> {Str(""), Str("my-btn")}
      [] k \in {"data-active", "data-loading"} -> {Str("false")}
      [] k = "title" -> {Str("Save"), Elem("Tip")}
      [] k = "variant" -> {Str("solid")}

ChildrenValues == {Str("Click"), Elem("Z")}

NoGroup == [provided |-> FALSE, value |-> EmptyObject]
InGroup(ctx) == [provided |-> TRUE, value |-> ctx]

Groups ==
    {NoGroup, InGroup(EmptyObject)}
        \cup {InGroup([isDisabled |-> b]) : b \in BoolValues}

\* style objects the theme may resolve for "Button"
ThemeStyles ==
    { [k \in {} |-> ""],
      [_focus |-> [boxShadow |-> "outline"]],
      [_focus |-> [boxShadow |-> "outline", zIndex |-> 5],
       outline |-> "2px solid"] }

NotRendered == [kind |-> "none"]

-----------------------------------------------------------------------------
(* External helpers *)

\* @chakra-ui/utils dataAttr
dataAttr(condition) == IF Truthy(condition) THEN Str("") ELSE Undefined

\* @chakra-ui/utils cx
cx(a, b) ==
    IF Truthy(a) /\ Truthy(b) THEN Str(a.val \o " " \o b.val)
    ELSE IF Truthy(a) THEN a
    ELSE IF Truthy(b) THEN b
    ELSE Str("")

\* @chakra-ui/utils objectFilter with the predicate of omitValidElementProps
omitValidElementProps(p) ==
    [k \in {x \in DOMAIN p : ~isValidElement(p[x])} |-> p[k]]

ThemingKeys == {"styleConfig", "size", "variant", "colorScheme"}

\* @chakra-ui/styled-system omitThemingProps
omitThemingProps(p) == Omit(p, ThemingKeys)

-----------------------------------------------------------------------------
(* Button *)

\* the names Button destructures out of omitThemingProps(props)
DestructuredKeys ==
    {"isDisabled", "isLoading", "isActive", "children", "leftIcon",
     "rightIcon", "loadingText", "iconSpacing", "type", "spinner",
     "spinnerPlacement", "className", "as", "shouldWrapChildren"}

\* RestProps had spinner been left out of the destructuring
RestPropsKeepingSpinner(p) ==
    Omit(omitThemingProps(p), DestructuredKeys \ {"spinner"})

\* ...rest
RestProps(p) == Omit(omitThemingProps(p), DestructuredKeys)

\* a destructuring default: used when the property is undefined
Default(v, d) == IF v = Undefined THEN d ELSE v

\* isDisabled = group?.isDisabled
isDisabledOf(p, g) == Default(Get(p, "isDisabled"), Get(g.value, "isDisabled"))

\* iconSpacing = "0.5rem"
iconSpacingOf(p) == Default(Get(p, "iconSpacing"), Str("0.5rem"))

\* spinnerPlacement = "start"
spinnerPlacementOf(p) == Default(Get(p, "spinnerPlacement"), Str("start"))

\* the argument of useStyleConfig: { ...group, ...styleProps }
StyleConfigProps(p, g) == Spread(g.value, omitValidElementProps(p))

FocusZIndex == 1

BaseStyles ==
    [display |-> "inline-flex", appearance |-> "none", alignItems |-> "center",
     justifyContent |-> "center", userSelect |-> "none",
     position |-> "relative", whiteSpace |-> "nowrap",
     verticalAlign |-> "middle", outline |-> "none"]

\* { ...styles?.["_focus"], zIndex: 1 }
FocusOverride(st) ==
    Spread(IF "_focus" \in DOMAIN st THEN st["_focus"] ELSE [k \in {} |-> ""],
           [zIndex |-> FocusZIndex])

\* buttonStyles without the !!group guard on the _focus override
buttonStylesAlwaysFocus(st, g) ==
    Spread(Spread(BaseStyles, st), [_focus |-> FocusOverride(st)])

buttonStyles(st, g) ==
    Spread(Spread(BaseStyles, st),
           IF g.provided THEN [_focus |-> FocusOverride(st)]
           ELSE [k \in {} |-> ""])

contentPropsOf(p) ==
    [rightIcon |-> Get(p, "rightIcon"),
     leftIcon |-> Get(p, "leftIcon"),
     iconSpacing |-> iconSpacingOf(p),
     children |-> Get(p, "children"),
     shouldWrapChildren |-> Get(p, "shouldWrapChildren")]

ButtonContentElement(cp) == [kind |-> "ButtonContent", props |-> cp]

ButtonSpinner(p, side) ==
    [kind |-> "ButtonSpinner",
     className |-> "chakra-button__spinner--" \o side,
     label |-> Get(p, "loadingText"),
     placement |-> side,
     spacing |-> iconSpacingOf(p),
     children |-> Get(p, "spinner")]

\* SpinnerSlot without the spinnerPlacement test
SpinnerSlotAnySide(p, side) ==
    IF Truthy(Get(p, "isLoading")) THEN <<ButtonSpinner(p, side)>> ELSE <<>>

\* {isLoading && spinnerPlacement === side && <ButtonSpinner .../>}
SpinnerSlot(p, side) ==
    IF Truthy(Get(p, "isLoading")) /\ spinnerPlacementOf(p) = Str(side)
    THEN <<ButtonSpinner(p, side)>>
    ELSE <<>>

SpanOpacity == 0

\* MainContent unmounting the content while loading
MainContentUnmounted(p) ==
    IF Truthy(Get(p, "isLoading"))
    THEN IF Truthy(Get(p, "loadingText"))
         THEN [kind |-> "text", value |-> Get(p, "loadingText")]
         ELSE [kind |-> "chakra.span", opacity |-> SpanOpacity,
               children |-> <<>>]
    ELSE ButtonContentElement(contentPropsOf(p))

\* MainContent ignoring loadingText
MainContentIgnoringLoadingText(p) ==
    IF Truthy(Get(p, "isLoading"))
    THEN [kind |-> "chakra.span", opacity |-> SpanOpacity,
          children |-> <<ButtonContentElement(contentPropsOf(p))>>]
    ELSE ButtonContentElement(contentPropsOf(p))

\* {isLoading ? loadingText || <chakra.span opacity={0}>...</chakra.span>
\*            : <ButtonContent {...contentProps} />}
MainContent(p) ==
    IF Truthy(Get(p, "isLoading"))
    THEN IF Truthy(Get(p, "loadingText"))
         THEN [kind |-> "text", value |-> Get(p, "loadingText")]
         ELSE [kind |-> "chakra.span", opacity |-> SpanOpacity,
               children |-> <<ButtonContentElement(contentPropsOf(p))>>]
    ELSE ButtonContentElement(contentPropsOf(p))

\* RootClassName letting the caller's className replace "chakra-button"
RootClassNameReplaced(p) == Or(Get(p, "className"), Str("chakra-button"))

\* className={cx("chakra-button", className)}
RootClassName(p) == cx(Str("chakra-button"), Get(p, "className"))

\* the attributes written before {...rest}
OwnAttributes(p, g, st) ==
    [k \in {"disabled", "data-active", "data-loading", "__css", "className"} |->
        CASE k = "disabled" -> Or(isDisabledOf(p, g), Get(p, "isLoading"))
          [] k = "data-active" -> dataAttr(Get(p, "isActive"))
          [] k = "data-loading" -> dataAttr(Get(p, "isLoading"))
          [] k = "__css" -> buttonStyles(st, g)
          [] k = "className" -> RootClassName(p)]

\* <chakra.button disabled=... className=... {...rest}>
RootAttributes(p, g, st) == Spread(OwnAttributes(p, g, st), RestProps(p))

RootChildren(p) ==
    SpinnerSlot(p, "start") \o <<MainContent(p)>> \o SpinnerSlot(p, "end")

Button(p, g, st) ==
    [kind |-> "chakra.button",
     props |-> RootAttributes(p, g, st),
     children |-> RootChildren(p)]

-----------------------------------------------------------------------------
(* ButtonContent *)

ButtonIconStart(icon, spacing) ==
    [kind |-> "ButtonIcon", margin |-> "marginEnd", spacing |-> spacing,
     children |-> icon]

ButtonIconEnd(icon, spacing) ==
    [kind |-> "ButtonIcon", margin |-> "marginStart", spacing |-> spacing,
     children |-> icon]

\* ContentSiblings with the trailing icon emitted before the children
ContentSiblingsIconsFirst(cp) ==
    (IF Truthy(cp.leftIcon)
        THEN <<ButtonIconStart(cp.leftIcon, cp.iconSpacing)>> ELSE <<>>)
    \o (IF Truthy(cp.rightIcon)
        THEN <<ButtonIconEnd(cp.rightIcon, cp.iconSpacing)>> ELSE <<>>)
    \o (IF cp.children # Undefined
        THEN <<[kind |-> "child", value |-> cp.children]>> ELSE <<>>)

\* {leftIcon && <ButtonIcon/>} {children} {rightIcon && <ButtonIcon/>}
ContentSiblings(cp) ==
    (IF Truthy(cp.leftIcon)
        THEN <<ButtonIconStart(cp.leftIcon, cp.iconSpacing)>> ELSE <<>>)
    \o (IF cp.children # Undefined
        THEN <<[kind |-> "child", value |-> cp.children]>> ELSE <<>>)
    \o (IF Truthy(cp.rightIcon)
        THEN <<ButtonIconEnd(cp.rightIcon, cp.iconSpacing)>> ELSE <<>>)

ButtonContent(cp) ==
    IF ~Truthy(cp.shouldWrapChildren)
    THEN [kind |-> "fragment", children |-> ContentSiblings(cp)]
    ELSE [kind |-> "span", style |-> [display |-> "contents"],
          children |-> ContentSiblings(cp)]

-----------------------------------------------------------------------------
(* The render pass *)

\* the ButtonContent elements of the tree Button returned
ContentElements(r) ==
    IF r.kind # "chakra.button" THEN {}
    ELSE LET top == {r.children[i] : i \in 1..Len(r.children)}
             inner == UNION {{n.children[i] : i \in 1..Len(n.children)} :
                               n \in {m \in top : m.kind = "chakra.span"}}
         IN {n \in top \cup inner : n.kind = "ButtonContent"}

Init ==
    /\ \E c \in ChildrenValues : props = [children |-> c]
    /\ group \in Groups
    /\ pc = "props"
    /\ styleArgs = EmptyObject
    /\ styles = [k \in {} |-> ""]
    /\ root = NotRendered
    /\ content = NotRendered

\* the caller writes one more property on the element
SetProp ==
    /\ pc = "props"
    /\ Cardinality(DOMAIN props) < MaxProps + 1
    /\ \E k \in PropKeys \ DOMAIN props : \E v \in PropValues(k) :
          props' = [x \in (DOMAIN props) \cup {k} |->
                      IF x = k THEN v ELSE props[x]]
    /\ UNCHANGED <<group, pc, styleArgs, styles, root, content>>

\* React calls Button(props, ref); the theme resolves some style object
RenderButton ==
    /\ pc = "props"
    /\ \E st \in ThemeStyles :
          /\ styles' = st
          /\ root' = Button(props, group, st)
    /\ styleArgs' = StyleConfigProps(props, group)
    /\ pc' = "rendered"
    /\ UNCHANGED <<props, group, content>>

\* React renders the ButtonContent element found in Button's tree
RenderButtonContent ==
    /\ pc = "rendered"
    /\ \E el \in ContentElements(root) : content' = ButtonContent(el.props)
    /\ pc' = "done"
    /\ UNCHANGED <<props, group, styleArgs, styles, root>>

Next == SetProp \/ RenderButton \/ RenderButtonContent

Spec == Init /\ [][Next]_vars

-----------------------------------------------------------------------------
(* Vocabulary of the properties *)

Rendered == pc # "props"

\* the value the caller supplied for k, Undefined when none
P(k) == Get(props, k)

Supplied(k) == k \in DOMAIN props

Loading == P("isLoading") = JsTrue

\* an attribute of the root element reaches the DOM unless it is undefined
HasAttr(a) == Get(root.props, a) # Undefined

\* the attributes of the root other than the style object
AttrKeys == (DOMAIN root.props) \ {"__css"}

\* the positions of the root's children holding a node of the given kind
Positions(kind) ==
    {i \in 1..Len(root.children) : root.children[i].kind = kind}

\* the spacing the icons and the spinner are expected to carry
ExpectedSpacing == IF Supplied("iconSpacing") THEN P("iconSpacing") ELSE Str("0.5rem")

\* the ButtonContent element expected for the supplied icons and children
IsOriginalContent(n) ==
    /\ n.kind = "ButtonContent"
    /\ n.props.children = P("children")
    /\ n.props.leftIcon = P("leftIcon")
    /\ n.props.rightIcon = P("rightIcon")
    /\ n.props.shouldWrapChildren = P("shouldWrapChildren")

\* the sibling sequence expected from ButtonContent: icon, children, icon,
\* an icon node only where an icon was supplied
ExpectedSiblings ==
    (IF Supplied("leftIcon")
        THEN <<[kind |-> "ButtonIcon", margin |-> "marginEnd",
                spacing |-> ExpectedSpacing, children |-> P("leftIcon")]>>
        ELSE <<>>)
    \o <<[kind |-> "child", value |-> P("children")]>>
    \o (IF Supplied("rightIcon")
        THEN <<[kind |-> "ButtonIcon", margin |-> "marginStart",
                spacing |-> ExpectedSpacing, children |-> P("rightIcon")]>>
        ELSE <<>>)

-----------------------------------------------------------------------------
(* C1 *)

\* C1: whenever isLoading is true the rendered root has disabled = true,
\* whatever isDisabled, the group and the passthrough attributes are.
C1_LoadingForcesDisabled ==
    (Rendered /\ Loading) => Get(root.props, "disabled") = JsTrue

-----------------------------------------------------------------------------
(* C3 *)

\* C3: data-active is present iff isActive is truthy, data-loading is present
\* iff isLoading is truthy, and neither is ever rendered as "false".
C3_DataAttributes ==
    Rendered =>
        /\ HasAttr("data-active") <=> Truthy(P("isActive"))
        /\ HasAttr("data-loading") <=> Truthy(P("isLoading"))
        /\ Get(root.props, "data-active") # Str("false")
        /\ Get(root.props, "data-loading") # Str("false")

-----------------------------------------------------------------------------
(* C9 *)

\* the disabled state C9 describes: explicit isDisabled, else the group's,
\* else false
ResolvedDisabled ==
    IF Supplied("isDisabled") THEN P("isDisabled")
    ELSE IF group.provided THEN Get(group.value, "isDisabled")
    ELSE JsFalse

\* C9: when isLoading is not true, the root is disabled exactly when the
\* explicit isDisabled (else the group's isDisabled, else false) is true.
C9_DisabledResolution ==
    (Rendered /\ ~Loading) =>
        (Truthy(Get(root.props, "disabled")) <=> Truthy(ResolvedDisabled))

-----------------------------------------------------------------------------
(* C2 *)

\* C2: no element-valued property appears among the attributes of the root.
C2_NoElementValuedAttribute ==
    Rendered => \A k \in AttrKeys : ~isValidElement(root.props[k])

\* C2, amended: leftIcon, rightIcon, spinner and children never appear among
\* the root's attributes; no element-valued property is handed to the style
\* resolution; every other extra attribute, element-valued or not, is
\* forwarded to the root unchanged.
C2_ElementPropsFilteredFromStyleOnly ==
    Rendered =>
        /\ AttrKeys \cap {"leftIcon", "rightIcon", "spinner", "children"} = {}
        /\ \A k \in DOMAIN styleArgs : ~isValidElement(styleArgs[k])
        /\ \A k \in {"disabled", "data-active", "data-loading", "title"} :
              Supplied(k) => (k \in AttrKeys /\ root.props[k] = props[k])

\* an element-valued extra attribute, a spinner element and element children
\* were supplied, and Button has rendered
C2_Witness ==
    /\ Rendered
    /\ P("title") = Elem("Tip")
    /\ P("spinner") = Elem("Spinner")
    /\ P("children") = Elem("Z")

-----------------------------------------------------------------------------
(* C4 *)

\* C4: when isLoading is true and no loadingText is given, the original
\* content is still in the tree, inside a container of opacity 0, and
\* ButtonContent renders the icons and children in it.
C4_HiddenContentKept ==
    (Rendered /\ Loading /\ ~Supplied("loadingText")) =>
        /\ \E i \in Positions("chakra.span") :
              /\ root.children[i].opacity = 0
              /\ Len(root.children[i].children) = 1
              /\ IsOriginalContent(root.children[i].children[1])
        /\ Positions("text") = {}
        /\ pc = "done" => content.children = ExpectedSiblings

\* a loading button without loadingText, wrapped children, spinner at the end,
\* after ButtonContent has rendered
C4_Witness ==
    /\ pc = "done"
    /\ Loading
    /\ ~Supplied("loadingText")
    /\ P("shouldWrapChildren") = JsTrue
    /\ P("spinnerPlacement") = Str("end")

-----------------------------------------------------------------------------
(* C5 *)

\* the root holds the ButtonContent element directly: no text node, no
\* zero-opacity container
ContentRenderedDirectly ==
    /\ Positions("text") = {}
    /\ Positions("chakra.span") = {}
    /\ \E i \in Positions("ButtonContent") :
          /\ Positions("ButtonContent") = {i}
          /\ IsOriginalContent(root.children[i])

\* the main content is the loadingText and nothing of the original content
ContentIsLoadingText ==
    /\ \E i \in Positions("text") :
          /\ Positions("text") = {i}
          /\ root.children[i].value = P("loadingText")
    /\ ContentElements(root) = {}
    /\ Positions("chakra.span") = {}

\* C5: when isLoading is true and a loadingText is provided the main content
\* is that loadingText and the original content is absent; when isLoading is
\* not true the original content is rendered directly.
C5_LoadingTextReplacesContent ==
    Rendered =>
        /\ (Loading /\ Supplied("loadingText")) => ContentIsLoadingText
        /\ ~Loading => ContentRenderedDirectly

\* C5, amended: the loadingText replaces the content when it is a non-empty
\* string; an empty loadingText behaves as an absent one (the original content
\* stays, in the zero-opacity container); when isLoading is not true the
\* original content is rendered directly.
C5_NonEmptyLoadingTextReplacesContent ==
    Rendered =>
        /\ (Loading /\ Supplied("loadingText") /\ P("loadingText") # Str(""))
              => ContentIsLoadingText
        /\ (Loading /\ P("loadingText") = Str("")) =>
              /\ Positions("text") = {}
              /\ \E i \in Positions("chakra.span") :
                    /\ root.children[i].opacity = 0
                    /\ IsOriginalContent(root.children[i].children[1])
        /\ ~Loading => ContentRenderedDirectly

\* a loading button with loadingText "Saving" and icons has rendered
C5_Witness ==
    /\ Rendered
    /\ Loading
    /\ P("loadingText") = Str("Saving")
    /\ Supplied("leftIcon")

-----------------------------------------------------------------------------
(* C6 *)

\* the node at position i is the spinner of the given side, labelled with
\* loadingText and spaced by iconSpacing
IsSpinner(i, side) ==
    /\ root.children[i].kind = "ButtonSpinner"
    /\ root.children[i].placement = side
    /\ root.children[i].label = P("loadingText")
    /\ root.children[i].spacing = ExpectedSpacing

IsMainContent(i) == root.children[i].kind \in {"text", "chakra.span"}

\* C6: when isLoading is true, spinnerPlacement "end" puts the one spinner
\* after the content node, "start" or no spinnerPlacement puts it before; the
\* spinner carries loadingText as label and iconSpacing as spacing.
C6_SpinnerPlacement ==
    (Rendered /\ Loading) =>
        /\ Len(root.children) = 2
        /\ P("spinnerPlacement") = Str("end") =>
              (IsMainContent(1) /\ IsSpinner(2, "end"))
        /\ P("spinnerPlacement") \in {Str("start"), Undefined} =>
              (IsSpinner(1, "start") /\ IsMainContent(2))

\* a loading button with the spinner at the end, a loadingText and a custom
\* iconSpacing has rendered
C6_Witness ==
    /\ Rendered
    /\ Loading
    /\ P("spinnerPlacement") = Str("end")
    /\ P("loadingText") = Str("Saving")
    /\ P("iconSpacing") = Str("1rem")

-----------------------------------------------------------------------------
(* C7 *)

\* C7: with leftIcon X, rightIcon Y and children Z, ButtonContent emits the
\* siblings [icon(X), Z, icon(Y)] directly when shouldWrapChildren is false,
\* and inside exactly one display: contents wrapper when it is true, the
\* leading icon spaced at its end and the trailing icon at its start.
C7_ContentOrder ==
    (pc = "done" /\ Supplied("leftIcon") /\ Supplied("rightIcon")) =>
        /\ content.children =
              << [kind |-> "ButtonIcon", margin |-> "marginEnd",
                  spacing |-> ExpectedSpacing, children |-> Elem("X")],
                 [kind |-> "child", value |-> P("children")],
                 [kind |-> "ButtonIcon", margin |-> "marginStart",
                  spacing |-> ExpectedSpacing, children |-> Elem("Y")] >>
        /\ P("shouldWrapChildren") = JsTrue =>
              (content.kind = "span" /\ content.style = [display |-> "contents"])
        /\ P("shouldWrapChildren") # JsTrue => content.kind = "fragment"

\* ButtonContent has rendered both icons around the children in a wrapper
C7_Witness ==
    /\ pc = "done"
    /\ Supplied("leftIcon")
    /\ Supplied("rightIcon")
    /\ P("shouldWrapChildren") = JsTrue

-----------------------------------------------------------------------------
(* C8 *)

\* C8: the root's class name is "chakra-button", followed by a space and the
\* caller's className when there is one, whatever the other properties are.
C8_ClassName ==
    Rendered =>
        /\ "className" \in AttrKeys
        /\ root.props["className"] =
              (IF P("className") = Str("my-btn")
                  THEN Str("chakra-button my-btn")
                  ELSE Str("chakra-button"))

\* a loading button with a caller className and a passthrough attribute
C8_Witness ==
    /\ Rendered
    /\ P("className") = Str("my-btn")
    /\ Loading
    /\ Supplied("title")

-----------------------------------------------------------------------------
(* C10 *)

StructuralKeys ==
    {"display", "appearance", "alignItems", "justifyContent", "userSelect",
     "position", "whiteSpace", "verticalAlign", "outline"}

ThemeFocus == IF "_focus" \in DOMAIN styles THEN styles["_focus"] ELSE <<>>

====
